---- MODULE Spec2Model ----
(***************************************************************************)
(* Task lifecycle and metrics manager (SemanticTaskProcessor) of the mmss  *)
(* crate, modelled as concurrent callers on one shared manager.           *)
(*                                                                         *)
(* Each caller thread issues one call at a time.  A call is split at the   *)
(* points where other threads can interleave: the acquisition of a         *)
(* std::sync::Mutex (which blocks while another thread holds it and fails  *)
(* when the mutex is poisoned), the simulated delay, and the return.       *)
(* Floating point metrics are kept as integers scaled by 10^4.             *)
(***************************************************************************)
EXTENDS Integers, FiniteSets, Sequences, TLC

\* ------------------------------------------------------------------ bounds
NumThreads == 2
MaxUuid == 2
MaxExec == 2

Threads == 1..NumThreads
Uuids == 1..MaxUuid

\* ------------------------------------------------------------------- types
\* GeometricOperator: the closed enumeration the manager hands to the engine.
GeometricOperator == {"QuaternionRotation", "Zitterbewegung",
                      "GeometricDerivation", "SemanticSynthesis"}

\* serde_json::Value payloads of `parameters`: the empty object of the tests
\* and the one-key object of the command line tool.
Parameters == {"{}", "{sample}"}

\* Option<Uuid>: None is {}, Some(id) is {id}.
OptionUuid == {{}} \cup {{id} : id \in Uuids}

\* The (operator, parameters) pairs of the commands the callers submit.
SubmittedWork ==
    {<<"QuaternionRotation", "{}">>, <<"Zitterbewegung", "{sample}">>}

\* GeometricTaskCommand; task_name, target_module and expected_output_metric
\* are opaque strings that no operation of the manager reads.
GeometricTaskCommand ==
    {[geometric_operator |-> w[1], parameters |-> w[2], task_id |-> o] :
        w \in SubmittedWork, o \in OptionUuid}

\* TaskStatus
Pending == [tag |-> "Pending"]
InProgress == [tag |-> "InProgress"]
Completed(m) == [tag |-> "Completed", metrics |-> m]
Failed(msg) == [tag |-> "Failed", message |-> msg]

IsTerminal(status) == status.tag \in {"Completed", "Failed"}

\* compute_quaternion_coherence, compute_zitter_entropy and the default
\* winding of baseline_metrics, scaled by 10^4.
BaselineMetrics ==
    [v_geometric |-> 9997, s_geometric |-> 3, q_oscillator |-> 89997]

\* Result<T> of a call: Err(Error::TaskExecution(message)) or Ok(value); a
\* call that unwinds with a panic returns nothing.
Err(op, arg, msg) == [op |-> op, arg |-> arg, kind |-> "Err", message |-> msg]
Ok(op, arg, value) == [op |-> op, arg |-> arg, kind |-> "Ok", value |-> value]
Panic(op, arg) == [op |-> op, arg |-> arg, kind |-> "Panic"]
NoReturn == [op |-> "none", kind |-> "None"]

PoisonedLockUnwraps(op, arg, what) == Panic(op, arg)
\* .lock().map_err(|_| Error::TaskExecution("Failed to access ..."))?
PoisonedLock(op, arg, what) == Err(op, arg, what)

\* ------------------------------------------------------------------- state
VARIABLES
    tasks,             \* self.tasks: HashMap<Uuid, TaskInfo>
    metrics,           \* self.metrics: the shared snapshot
    emergence,         \* self.emergence: the engine's internal state
    tasksLock,         \* threads holding the guard of self.tasks
    metricsLock,       \* threads holding the guard of self.metrics
    emergenceLock,     \* threads holding the guard of self.emergence
    tasksPoisoned,     \* a thread panicked while holding self.tasks
    metricsPoisoned,   \* ... while holding self.metrics
    emergencePoisoned, \* ... while holding self.emergence
    pc,                \* each thread's position inside execute_task, or idle
    call,              \* the task_id argument of each thread's execute_task
    local,             \* each thread's local `metrics` in execute_task
    ret,               \* the call that returned in the last step, if any
    applied,           \* number of engine applications so far
    lastDone,          \* the latest TaskExecutionResult returned
    submitted,         \* the ids submit_task has returned so far
    produced,          \* the metrics apply_operator has returned so far
    input,             \* the argument of the pure function under study
    output             \* what the function returned for it

vars == <<tasks, metrics, emergence, tasksLock, metricsLock, emergenceLock,
          tasksPoisoned, metricsPoisoned, emergencePoisoned,
          pc, call, local, ret, applied, lastDone, submitted, produced,
          input, output>>

locks == <<tasksLock, metricsLock, emergenceLock>>
poison == <<tasksPoisoned, metricsPoisoned, emergencePoisoned>>
thread == <<pc, call, local>>
pure == <<input, output>>

\* No pure function is under study.
NoInput == << >>
NoOutput == "none"

\* SemanticTaskProcessor::new.  The engine built by EmergenceLogic::new(None)
\* starts from the baseline, as the snapshot does.
New ==
    /\ tasks = << >>
    /\ metrics = BaselineMetrics
    /\ emergence = BaselineMetrics
    /\ tasksLock = {}
    /\ metricsLock = {}
    /\ emergenceLock = {}
    /\ tasksPoisoned = FALSE
    /\ metricsPoisoned = FALSE
    /\ emergencePoisoned = FALSE
    /\ pc = [t \in Threads |-> "idle"]
    /\ call = [t \in Threads |-> {}]
    /\ local = [t \in Threads |-> BaselineMetrics]
    /\ ret = NoReturn
    /\ applied = 0
    /\ lastDone = NoReturn
    /\ submitted = {}
    /\ produced = {}

\* The manager after construction.
Init ==
    /\ New
    /\ input = NoInput
    /\ output = NoOutput

\* ------------------------------------------------------------- submit_task
\* let task_id = task.task_id.unwrap_or_else(Uuid::new_v4)
TaskId(task, generated) ==
    IF task.task_id = {} THEN generated ELSE CHOOSE id \in task.task_id : TRUE

\* An insert that stores the task as already running.
InsertInProgress(tbl, id, task) ==
    [k \in DOMAIN tbl \cup {id} |->
        IF k = id THEN [command |-> task, status |-> InProgress] ELSE tbl[k]]

\* tasks.insert(task_id, TaskInfo { command: task.clone(), status: Pending })
Insert(tbl, id, task) ==
    [k \in DOMAIN tbl \cup {id} |->
        IF k = id THEN [command |-> task, status |-> Pending] ELSE tbl[k]]

\* An insert without the contains_key check: HashMap::insert overwrites.
SubmitTableOverwrites(tbl, id, task) == Insert(tbl, id, task)

\* The table submit_task leaves once it holds the lock.
SubmitTable(tbl, id, task) ==
    IF id \in DOMAIN tbl THEN tbl ELSE Insert(tbl, id, task)

\* The value submit_task returns once it holds the lock.
SubmitResult(tbl, id, task) ==
    IF id \in DOMAIN tbl
    THEN Err("submit_task", [task |-> task, task_id |-> id], "already exists")
    ELSE Ok("submit_task", [task |-> task, task_id |-> id], id)

\* submit_task: the lock is held from line 70 to the return, so the body is
\* one step; the call blocks while another thread holds the lock.
SubmitTask(t) ==
    /\ pc[t] = "idle"
    /\ tasksLock = {}
    /\ \E task \in GeometricTaskCommand, generated \in Uuids :
        LET id == TaskId(task, generated) IN
        IF tasksPoisoned
        THEN /\ ret' = PoisonedLock("submit_task",
                                    [task |-> task, task_id |-> id],
                                    "Failed to access task storage")
             /\ UNCHANGED tasks
        ELSE /\ tasks' = SubmitTable(tasks, id, task)
             /\ ret' = SubmitResult(tasks, id, task)
    /\ submitted' = IF ret'.kind = "Ok"
                    THEN submitted \cup {ret'.value} ELSE submitted
    /\ UNCHANGED <<metrics, emergence, locks, poison, thread, applied,
                   lastDone, produced, pure>>

\* -------------------------------------------------------- emergence engine
\* EmergenceLogic::apply_operator(&mut self, operator, &parameters): the new
\* metrics, computed from the engine's own state, which it replaces.
ParameterWeight(parameters) == IF parameters = "{}" THEN 0 ELSE 1

ApplyOperator(operator, parameters, previous) ==
    CASE operator = "QuaternionRotation" ->
            [previous EXCEPT
                !.v_geometric = @ + 10 + ParameterWeight(parameters)]
      [] operator = "Zitterbewegung" ->
            [previous EXCEPT
                !.s_geometric = @ + 1 + ParameterWeight(parameters)]
      [] operator = "GeometricDerivation" ->
            [previous EXCEPT
                !.q_oscillator = @ + 1 + ParameterWeight(parameters)]
      [] operator = "SemanticSynthesis" ->
            [previous EXCEPT
                !.v_geometric = @ + 1,
                !.s_geometric = @ + 1 + ParameterWeight(parameters)]

\* ------------------------------------------------------------ execute_task
EngineCallWithoutParameters(command, state) ==
    ApplyOperator(command.geometric_operator, "{}", state)
\* Line 140: emergence.apply_operator(task.geometric_operator,
\* &task.parameters), on the engine instance the manager owns.
EngineCall(command, state) ==
    ApplyOperator(command.geometric_operator, command.parameters, state)

\* A lookup that creates the entry it does not find (entry().or_insert).
MarkInProgressOrInsert(tbl, id) ==
    [k \in DOMAIN tbl \cup {id} |->
        IF k = id
        THEN [command |-> IF id \in DOMAIN tbl THEN tbl[id].command
                          ELSE [geometric_operator |-> "QuaternionRotation",
                                parameters |-> "{}", task_id |-> {}],
              status |-> InProgress]
        ELSE tbl[k]]

\* tasks.get_mut(&task_id) ... info.status = TaskStatus::InProgress
MarkInProgress(tbl, id) ==
    IF id \in DOMAIN tbl THEN [tbl EXCEPT ![id].status = InProgress] ELSE tbl

\* The guard dropped as soon as the task is marked.
TasksGuardDropped(t) == {}

\* The guard `tasks` of line 98 is borrowed by `info` and lives to the end
\* of execute_task: the holder of the lock once the task is marked.
TasksGuard(t) == {t}

\* Guards that outlive simulate_task_execution.
KeepGuard(held, t) == held

\* The guards `metrics` and `emergence` go out of scope at line 144, when
\* simulate_task_execution returns.
DropGuard(held, t) == held \ {t}

StoreSnapshotPartial(old, updated) ==
    [old EXCEPT !.s_geometric = updated.s_geometric]
\* *metrics = updated.clone()
StoreSnapshot(old, updated) == updated

\* A copy of the snapshot taken before the store.
ReturnedBeforeStore(old, stored) == old

\* Ok(metrics.clone()): a copy of the snapshot as it is after the store.
ReturnedMetrics(old, stored) == stored

TerminalStatusFailed(m) == Failed("execution failed")
\* Line 116: TaskStatus::Completed(metrics.clone()), the only terminal status
\* execute_task writes
TerminalStatus(m) == Completed(m)

\* A Completed status that refers to the live snapshot: every Completed task
\* shows the latest metrics.
CompleteTaskLive(tbl, id, m) ==
    [k \in DOMAIN tbl |->
        IF k = id \/ tbl[k].status.tag = "Completed"
        THEN [tbl[k] EXCEPT !.status = Completed(m)]
        ELSE tbl[k]]

\* info.status = TaskStatus::Completed(metrics.clone())
CompleteTask(tbl, id, m) == [tbl EXCEPT ![id].status = TerminalStatus(m)]

ExecutionResultFailed(id, m) ==
    [task_id |-> id, success |-> FALSE, metrics |-> m, error |-> {"failed"}]
\* TaskExecutionResult { task_id, success: true, metrics, output, error: None }
ExecutionResult(id, m) ==
    [task_id |-> id, success |-> TRUE, metrics |-> m, error |-> {}]

\* Threads inside execute_task, past the lookup.
Executing == {t \in Threads : pc[t] # "idle"}

\* Lines 98-108: lock the table, look the task up, mark it InProgress.  The
\* number of engine applications is capped by MaxExec.
ExecuteTask(t) ==
    /\ pc[t] = "idle"
    /\ tasksLock = {}
    /\ applied + Cardinality(Executing) < MaxExec
    /\ \E id \in Uuids :
        /\ tasks' = IF tasksPoisoned THEN tasks ELSE MarkInProgress(tasks, id)
        /\ IF tasksPoisoned
           THEN /\ ret' = PoisonedLock("execute_task", id,
                                       "Failed to access task storage")
                /\ UNCHANGED <<tasksLock, pc, call>>
           ELSE IF id \notin DOMAIN tasks
           THEN /\ ret' = Err("execute_task", id, "not found")
                /\ UNCHANGED <<tasksLock, pc, call>>
           ELSE /\ tasksLock' = TasksGuard(t)
                /\ pc' = [pc EXCEPT ![t] = "sleep"]
                /\ call' = [call EXCEPT ![t] = {id}]
                /\ ret' = NoReturn
    /\ UNCHANGED <<metrics, emergence, metricsLock, emergenceLock, poison,
                   local, applied,
                   lastDone, submitted, produced, pure>>

\* The task_id of the execute_task thread t is in.
Arg(t) == CHOOSE id \in call[t] : TRUE

\* A lock of simulate_task_execution fails and ? returns the error: the
\* guards the call holds are dropped, unpoisoned.
ExecuteFails(t, msg) ==
    /\ ret' = PoisonedLock("execute_task", Arg(t), msg)
    /\ pc' = [pc EXCEPT ![t] = "idle"]
    /\ call' = [call EXCEPT ![t] = {}]
    /\ tasksLock' = tasksLock \ {t}
    /\ metricsLock' = metricsLock \ {t}
    /\ emergenceLock' = emergenceLock \ {t}

\* Line 111: std::thread::sleep
Sleep(t) ==
    /\ pc[t] = "sleep"
    /\ pc' = [pc EXCEPT ![t] = "lock_metrics"]
    /\ ret' = NoReturn
    /\ UNCHANGED <<tasks, metrics, emergence, locks, poison, call, local,
                   applied, lastDone, submitted, produced, pure>>

\* Lines 130-133: self.metrics.lock()
LockMetrics(t) ==
    /\ pc[t] = "lock_metrics"
    /\ metricsLock = {}
    /\ IF metricsPoisoned
       THEN ExecuteFails(t, "Failed to access metrics")
       ELSE /\ metricsLock' = {t}
            /\ pc' = [pc EXCEPT ![t] = "lock_emergence"]
            /\ ret' = NoReturn
            /\ UNCHANGED <<tasksLock, emergenceLock, call>>
    /\ UNCHANGED <<tasks, metrics, emergence, poison, local, applied,
                   lastDone, submitted, produced, pure>>

\* Lines 135-138: self.emergence.lock()
LockEmergence(t) ==
    /\ pc[t] = "lock_emergence"
    /\ emergenceLock = {}
    /\ IF emergencePoisoned
       THEN ExecuteFails(t, "Failed to access emergence logic")
       ELSE /\ emergenceLock' = {t}
            /\ pc' = [pc EXCEPT ![t] = "apply"]
            /\ ret' = NoReturn
            /\ UNCHANGED <<tasksLock, metricsLock, call>>
    /\ UNCHANGED <<tasks, metrics, emergence, poison, local, applied,
                   lastDone, submitted, produced, pure>>

\* Lines 140-144: apply the operator, store the snapshot, return a copy of
\* it; the guards of the engine and of the snapshot are dropped on return.
Apply(t) ==
    /\ pc[t] = "apply"
    /\ LET updated == EngineCall(tasks[Arg(t)].command, emergence)
       IN /\ emergence' = updated
          /\ metrics' = StoreSnapshot(metrics, updated)
          /\ local' = [local EXCEPT ![t] =
                ReturnedMetrics(metrics, StoreSnapshot(metrics, updated))]
          /\ produced' = produced \cup {updated}
    /\ emergenceLock' = DropGuard(emergenceLock, t)
    /\ metricsLock' = DropGuard(metricsLock, t)
    /\ applied' = applied + 1
    /\ pc' = [pc EXCEPT ![t] = "complete"]
    /\ ret' = NoReturn
    /\ UNCHANGED <<tasks, tasksLock, poison, call, lastDone, submitted, pure>>

\* The engine panics inside apply_operator: the thread unwinds through
\* simulate_task_execution and execute_task, and every guard it holds is
\* dropped during the unwinding, which poisons its mutex.  The caller
\* survives the panic (a worker that catches it) and may call again.
ApplyPanics(t) ==
    /\ pc[t] = "apply"
    /\ emergencePoisoned' = (emergencePoisoned \/ t \in emergenceLock)
    /\ metricsPoisoned' = (metricsPoisoned \/ t \in metricsLock)
    /\ tasksPoisoned' = (tasksPoisoned \/ t \in tasksLock)
    /\ emergenceLock' = emergenceLock \ {t}
    /\ metricsLock' = metricsLock \ {t}
    /\ tasksLock' = tasksLock \ {t}
    /\ ret' = Panic("execute_task", Arg(t))
    /\ pc' = [pc EXCEPT ![t] = "idle"]
    /\ call' = [call EXCEPT ![t] = {}]
    /\ UNCHANGED <<tasks, metrics, emergence, local, applied,
                   lastDone, submitted, produced, pure>>

\* Lines 116-125: write the terminal status and return the result; the guard
\* of the table is dropped on return.
Complete(t) ==
    /\ pc[t] = "complete"
    /\ tasks' = CompleteTask(tasks, Arg(t), local[t])
    /\ ret' = Ok("execute_task", Arg(t), ExecutionResult(Arg(t), local[t]))
    /\ lastDone' = ExecutionResult(Arg(t), local[t])
    /\ tasksLock' = tasksLock \ {t}
    /\ pc' = [pc EXCEPT ![t] = "idle"]
    /\ call' = [call EXCEPT ![t] = {}]
    /\ local' = [local EXCEPT ![t] = BaselineMetrics]
    /\ UNCHANGED <<metrics, emergence, metricsLock, emergenceLock, poison,
                   applied, submitted, produced, pure>>

\* ------------------------------------------- get_task_status, get_metrics,
\* ------------------------------------------------------------- list_tasks
\* tasks.get(&task_id).map(|info| info.status.clone()).ok_or_else(...)
StatusResult(tbl, id) ==
    IF id \in DOMAIN tbl
    THEN Ok("get_task_status", id, tbl[id].status)
    ELSE Err("get_task_status", id, "not found")

ListResultUnfinished(tbl) ==
    {<<id, tbl[id].status>> :
        id \in {a \in DOMAIN tbl : ~IsTerminal(tbl[a].status)}}
\* tasks.iter().map(|(id, info)| (*id, info.status.clone())).collect()
ListResult(tbl) == {<<id, tbl[id].status>> : id \in DOMAIN tbl}

GetMetricsResultBaseline(current) == Ok("get_metrics", {}, BaselineMetrics)
\* Ok(metrics.clone())
GetMetricsResult(current) == Ok("get_metrics", {}, current)

SnapshotAfterTake(current) == BaselineMetrics
\* metrics.clone() of get_metrics reads the snapshot through the guard and
\* leaves it in place.
SnapshotAfterClone(current) == current

GetTaskStatus(t) ==
    /\ pc[t] = "idle"
    /\ tasksLock = {}
    /\ \E id \in Uuids :
        ret' = IF tasksPoisoned
               THEN PoisonedLock("get_task_status", id,
                                 "Failed to access task storage")
               ELSE StatusResult(tasks, id)
    /\ UNCHANGED <<tasks, metrics, emergence, locks, poison, thread, applied,
                   lastDone, submitted, produced, pure>>

GetMetrics(t) ==
    /\ pc[t] = "idle"
    /\ metricsLock = {}
    /\ ret' = IF metricsPoisoned
              THEN PoisonedLock("get_metrics", {}, "Failed to access metrics")
              ELSE GetMetricsResult(metrics)
    /\ metrics' = IF metricsPoisoned THEN metrics
                  ELSE SnapshotAfterClone(metrics)
    /\ UNCHANGED <<tasks, emergence, locks, poison, thread, applied,
                   lastDone, submitted, produced, pure>>

ListTasks(t) ==
    /\ pc[t] = "idle"
    /\ tasksLock = {}
    /\ ret' = IF tasksPoisoned
              THEN PoisonedLock("list_tasks", {},
                                "Failed to access task storage")
              ELSE Ok("list_tasks", {}, ListResult(tasks))
    /\ UNCHANGED <<tasks, metrics, emergence, locks, poison, thread, applied,
                   lastDone, submitted, produced, pure>>

\* ============================================== operator normalization
\* src/api/llm_gateway.rs.  A str is the sequence of its characters.
MaxPieces == 3

UpperCase ==
    <<"A", "B", "C", "D", "E", "F", "G", "H", "I", "J", "K", "L", "M", "N",
    "O", "P", "Q", "R", "S", "T", "U", "V", "W", "X", "Y", "Z">>
LowerCase ==
    <<"a", "b", "c", "d", "e", "f", "g", "h", "i", "j", "k", "l", "m", "n",
    "o", "p", "q", "r", "s", "t", "u", "v", "w", "x", "y", "z">>
WhiteSpace == {" ", "\t", "\n", "\r"}

\* char::to_lowercase and str::to_lowercase
ToLowercaseChar(c) ==
    IF \E i \in DOMAIN UpperCase : UpperCase[i] = c
    THEN LowerCase[CHOOSE i \in DOMAIN UpperCase : UpperCase[i] = c]
    ELSE c
ToLowercase(str) == [i \in DOMAIN str |-> ToLowercaseChar(str[i])]

\* str::trim: without the leading and the trailing white space
RECURSIVE TrimStart(_)
TrimStart(str) ==
    IF str # << >> /\ Head(str) \in WhiteSpace
    THEN TrimStart(Tail(str))
    ELSE str
RECURSIVE TrimEnd(_)
TrimEnd(str) ==
    IF str # << >> /\ str[Len(str)] \in WhiteSpace
    THEN TrimEnd(SubSeq(str, 1, Len(str) - 1))
    ELSE str
Trim(str) == TrimEnd(TrimStart(str))

\* str::contains(pattern)
Contains(str, pattern) ==
    \E i \in 1..(Len(str) - Len(pattern) + 1) :
        SubSeq(str, i, i + Len(pattern) - 1) = pattern

\* The labels handed to the normalization: up to MaxPieces pieces in a row,
\* taken from white space, the enum names in several spellings, keywords,
\* halves of a keyword and text that matches nothing.
Pieces ==
    {<<" ">>,
     <<"\n">>,
     <<"Z", "i", "t", "t", "e", "r", "B", "e", "w", "e", "g", "u", "n", "g">>,
     <<"q", "u", "a", "t", "e", "r", "n", "i", "o", "n", "r", "o", "t", "a",
     "t", "i", "o", "n">>,
     <<"G", "E", "O", "M", "E", "T", "R", "I", "C", "D", "E", "R", "I", "V",
     "A", "T", "I", "O", "N">>,
     <<"S", "e", "m", "a", "n", "t", "i", "c", "S", "y", "n", "t", "h", "e",
     "s", "i", "s">>,
     <<"o", "p", "t", "i", "m", "i", "z", "e">>,
     <<"C", "o", "h", "e", "r", "e", "n", "c", "e">>,
     <<"o", "s", "c", "i", "l", "l", "a", "t", "i", "o", "n">>,
     <<"S", "t", "a", "b", "i", "l", "i", "z", "e">>,
     <<"a", "n", "c", "h", "o", "r">>,
     <<"z", "i", "t">>,
     <<"t", "e", "r">>,
     <<"b", "o", "o", "s", "t">>}
RECURSIVE Labels(_)
Labels(n) ==
    IF n = 0 THEN {<< >>}
    ELSE Labels(n - 1) \cup
         {label \o piece : label \in Labels(n - 1), piece \in Pieces}

\* The spelling of the enum names, lines 147-158.
Spelling(operator) ==
    CASE operator = "QuaternionRotation" ->
            <<"Q", "u", "a", "t", "e", "r", "n", "i", "o", "n", "R", "o", "t",
            "a", "t", "i", "o", "n">>
      [] operator = "Zitterbewegung" ->
            <<"Z", "i", "t", "t", "e", "r", "b", "e", "w", "e", "g", "u", "n",
            "g">>
      [] operator = "GeometricDerivation" ->
            <<"G", "e", "o", "m", "e", "t", "r", "i", "c", "D", "e", "r", "i",
            "v", "a", "t", "i", "o", "n">>
      [] operator = "SemanticSynthesis" ->
            <<"S", "e", "m", "a", "n", "t", "i", "c", "S", "y", "n", "t", "h",
            "e", "s", "i", "s">>

KeywordTableCoherenceFirst ==
    <<[keywords |-> {<<"c", "o", "h", "e", "r", "e", "n", "c", "e">>,
                    <<"o", "p", "t", "i", "m", "i", "z", "e">>,
                    <<"q", "u", "a", "t", "e", "r", "n", "i", "o", "n">>},
      operator |-> "QuaternionRotation"],
     [keywords |-> {<<"z", "i", "t", "t", "e", "r">>,
                    <<"o", "s", "c", "i", "l", "l", "a", "t", "i", "o", "n">>},
      operator |-> "Zitterbewegung"],
     [keywords |-> {<<"s", "t", "a", "b", "i", "l", "i", "z", "e">>,
                    <<"d", "e", "r", "i", "v", "a", "t", "i", "o", "n">>},
      operator |-> "GeometricDerivation"],
     [keywords |-> {<<"s", "e", "m", "a", "n", "t", "i", "c">>,
                    <<"a", "n", "c", "h", "o", "r">>},
      operator |-> "SemanticSynthesis"]>>
\* Lines 135-145: the keywords of each branch, in the order of the branches.
KeywordTable ==
    <<[keywords |-> {<<"z", "i", "t", "t", "e", "r">>,
                    <<"o", "s", "c", "i", "l", "l", "a", "t", "i", "o", "n">>},
      operator |-> "Zitterbewegung"],
     [keywords |-> {<<"s", "t", "a", "b", "i", "l", "i", "z", "e">>,
                    <<"d", "e", "r", "i", "v", "a", "t", "i", "o", "n">>},
      operator |-> "GeometricDerivation"],
     [keywords |-> {<<"s", "e", "m", "a", "n", "t", "i", "c">>,
                    <<"a", "n", "c", "h", "o", "r">>},
      operator |-> "SemanticSynthesis"],
     [keywords |-> {<<"c", "o", "h", "e", "r", "e", "n", "c", "e">>,
                    <<"o", "p", "t", "i", "m", "i", "z", "e">>,
                    <<"q", "u", "a", "t", "e", "r", "n", "i", "o", "n">>},
      operator |-> "QuaternionRotation"]>>

LoweredCaseSensitive(raw) == Trim(raw)
\* Line 133: raw.trim().to_lowercase()
Lowered(raw) == ToLowercase(Trim(raw))

DefaultOperatorUnknown == "Unknown"
\* Lines 160-162: the else branch
DefaultOperator == "QuaternionRotation"

\* The branches of lines 135-145 whose condition holds for the text.
Matching(lowered) ==
    {i \in DOMAIN KeywordTable :
        \E keyword \in KeywordTable[i].keywords : Contains(lowered, keyword)}

\* Lines 132-163
MapLlmResponseToOperator(raw) ==
    LET lowered == Lowered(raw)
        matching == Matching(lowered)
    IN  IF matching # {}
        THEN KeywordTable[CHOOSE i \in matching :
                              \A j \in matching : i <= j].operator
        ELSE IF \E operator \in GeometricOperator :
                    lowered = ToLowercase(Spelling(operator))
        THEN CHOOSE operator \in GeometricOperator :
                    lowered = ToLowercase(Spelling(operator))
        ELSE DefaultOperator

manager == <<tasks, metrics, emergence, locks, poison, thread, ret, applied,
             lastDone, submitted, produced>>

\* A label arrives in the field geometric_operator of a payload.
InitNormalize ==
    /\ New
    /\ input \in Labels(MaxPieces)
    /\ output = NoOutput

\* Lines 123-130: normalize_geometric_operator
Normalize ==
    /\ output = NoOutput
    /\ output' = MapLlmResponseToOperator(input)
    /\ UNCHANGED <<manager, input>>

NextNormalize == Normalize

SpecNormalize == InitNormalize /\ [][NextNormalize]_vars

\* ================================================== quaternion algebra
\* src/core/geometric_quaternion_core.rs.  An f64 is modelled by the rational
\* number it holds, a fraction in lowest terms with a positive denominator;
\* the arguments are drawn from values on which sqrt, acos, sin and cos are
\* rational.
MaxComponent == 1

RECURSIVE Gcd(_, _)
Gcd(m, n) == IF n = 0 THEN m ELSE Gcd(n, m % n)

Abs(n) == IF n < 0 THEN -n ELSE n

Fraction(n, d) ==
    IF d = 1 THEN [n |-> n, d |-> 1]
    ELSE LET g == Gcd(Abs(n), Abs(d))
             sign == IF d < 0 THEN -1 ELSE 1
         IN  [n |-> sign * (n \div g), d |-> sign * (d \div g)]

\* The f64 operators +, -, *, / and the unary -
Plus(a, b) ==
    IF a.d = 1 /\ b.d = 1 THEN [n |-> a.n + b.n, d |-> 1]
    ELSE Fraction(a.n * b.d + b.n * a.d, a.d * b.d)
Minus(a, b) ==
    IF a.d = 1 /\ b.d = 1 THEN [n |-> a.n - b.n, d |-> 1]
    ELSE Fraction(a.n * b.d - b.n * a.d, a.d * b.d)
Times(a, b) ==
    IF a.d = 1 /\ b.d = 1 THEN [n |-> a.n * b.n, d |-> 1]
    ELSE Fraction(a.n * b.n, a.d * b.d)
Over(a, b) == Fraction(a.n * b.d, a.d * b.n)
Neg(a) == [n |-> -a.n, d |-> a.d]

\* The f64 comparison <
Less(a, b) == a.n * b.d < b.n * a.d

\* The literals 0.0, 1.0 and 0.9995, and the comparison with 1e-10
Zero == [n |-> 0, d |-> 1]
One == [n |-> 1, d |-> 1]
DotThreshold == [n |-> 1999, d |-> 2000]
BelowEpsilon(a) == a.n <= 0 \/ a.n * 100000 <= (a.d - 1) \div 100000

\* f64::sqrt, on the squares of fractions
Sqrt(a) ==
    [n |-> CHOOSE r \in 0..a.n : r * r = a.n,
     d |-> CHOOSE r \in 1..a.d : r * r = a.d]
HasSqrt(a) ==
    /\ \E r \in 0..a.n : r * r = a.n
    /\ \E r \in 1..a.d : r * r = a.d

\* Quaternion::new
Quaternion(w, x, y, z) == [w |-> w, x |-> x, y |-> y, z |-> z]

IdentityAllOnes == Quaternion(One, One, One, One)
\* Quaternion::identity
Identity == Quaternion(One, Zero, Zero, Zero)

\* A product without the signs of the cross product.
MultiplyCommutative(a, b) ==
    Quaternion(Minus(Minus(Minus(Times(a.w, b.w), Times(a.x, b.x)),
                     Times(a.y, b.y)), Times(a.z, b.z)),
               Plus(Plus(Plus(Times(a.w, b.x), Times(a.x, b.w)),
                    Times(a.y, b.z)), Times(a.z, b.y)),
               Plus(Plus(Plus(Times(a.w, b.y), Times(a.x, b.z)),
                    Times(a.y, b.w)), Times(a.z, b.x)),
               Plus(Plus(Plus(Times(a.w, b.z), Times(a.x, b.y)),
                    Times(a.y, b.x)), Times(a.z, b.w)))
\* Quaternion::multiply, lines 41-48, with the operations in the order of
\* the source
Multiply(a, b) ==
    Quaternion(Minus(Minus(Minus(Times(a.w, b.w), Times(a.x, b.x)),
                     Times(a.y, b.y)), Times(a.z, b.z)),
               Minus(Plus(Plus(Times(a.w, b.x), Times(a.x, b.w)),
                     Times(a.y, b.z)), Times(a.z, b.y)),
               Plus(Plus(Minus(Times(a.w, b.y), Times(a.x, b.z)),
                    Times(a.y, b.w)), Times(a.z, b.x)),
               Plus(Minus(Plus(Times(a.w, b.z), Times(a.x, b.y)),
                    Times(a.y, b.x)), Times(a.z, b.w)))

ConjugateNegatesAll(q) == Quaternion(Neg(q.w), Neg(q.x), Neg(q.y), Neg(q.z))
\* Quaternion::conjugate, lines 51-58
Conjugate(q) == Quaternion(q.w, Neg(q.x), Neg(q.y), Neg(q.z))

\* The sum under the square root of Quaternion::norm, and the dot product
\* of line 119
Dot(a, b) ==
    Plus(Plus(Plus(Times(a.w, b.w), Times(a.x, b.x)), Times(a.y, b.y)),
         Times(a.z, b.z))

\* Quaternion::norm, lines 61-63
Norm(q) == Sqrt(Dot(q, q))

\* Quaternion::normalize, lines 66-77
NormalizeQuaternion(q) ==
    LET n == Norm(q)
    IN  IF BelowEpsilon(n) THEN Identity
        ELSE Quaternion(Over(q.w, n), Over(q.x, n), Over(q.y, n), Over(q.z, n))

\* Quaternion::rotate_vector, lines 80-92: the local p_rotated and the
\* array returned
RotateVector(self, v) ==
    LET q == NormalizeQuaternion(self)
        p == Quaternion(Zero, v[1], v[2], v[3])
        q_conj == Conjugate(q)
        p_rotated == Multiply(Multiply(q, p), q_conj)
    IN  [p_rotated |-> p_rotated,
         value |-> <<p_rotated.x, p_rotated.y, p_rotated.z>>]

\* Angles are held as multiples of pi.  f64::acos, f64::sin and f64::cos on
\* the angles whose value is rational.
Acos(c) ==
    CASE c = One -> Zero
      [] c = [n |-> 1, d |-> 2] -> [n |-> 1, d |-> 3]
      [] c = Zero -> [n |-> 1, d |-> 2]
Sin(angle) ==
    CASE angle = Zero -> Zero
      [] angle = [n |-> 1, d |-> 6] -> [n |-> 1, d |-> 2]
      [] angle = [n |-> 1, d |-> 2] -> One
Cos(angle) ==
    CASE angle = Zero -> One
      [] angle = [n |-> 1, d |-> 3] -> [n |-> 1, d |-> 2]
      [] angle = [n |-> 1, d |-> 2] -> Zero

\* Quaternion::slerp, lines 118-156
Slerp(self, target, t) ==
    LET product == Dot(self, target)
        reversed == Less(product, Zero)
        other == IF reversed
                 THEN Quaternion(Neg(target.w), Neg(target.x),
                                 Neg(target.y), Neg(target.z))
                 ELSE target
        dot == IF reversed THEN Neg(product) ELSE product
    IN  IF Less(DotThreshold, dot)
        THEN NormalizeQuaternion(
                Quaternion(Plus(self.w, Times(t, Minus(other.w, self.w))),
                           Plus(self.x, Times(t, Minus(other.x, self.x))),
                           Plus(self.y, Times(t, Minus(other.y, self.y))),
                           Plus(self.z, Times(t, Minus(other.z, self.z)))))
        ELSE LET theta_0 == Acos(dot)
                 theta == Times(theta_0, t)
                 sin_theta == Sin(theta)
                 sin_theta_0 == Sin(theta_0)
                 s1 == Minus(Cos(Minus(theta_0, theta)),
                             Over(Times(dot, sin_theta), sin_theta_0))
                 s2 == Over(sin_theta, sin_theta_0)
             IN  Quaternion(Plus(Times(self.w, s1), Times(other.w, s2)),
                            Plus(Times(self.x, s1), Times(other.x, s2)),
                            Plus(Times(self.y, s1), Times(other.y, s2)),
                            Plus(Times(self.z, s1), Times(other.z, s2)))

\* The arguments of the calls.  Whole numbers up to MaxComponent:
Whole(n) == [n |-> n, d |-> 1]
Components == {Whole(n) : n \in (-MaxComponent)..MaxComponent}
WholeQuaternions ==
    {Quaternion(w, x, y, z) : w \in Components, x \in Components,
                              y \in Components, z \in Components}

\* The operands of tests::test_quaternion_multiplication
Q1234 == Quaternion(Whole(1), Whole(2), Whole(3), Whole(4))
Q5678 == Quaternion(Whole(5), Whole(6), Whole(7), Whole(8))

\* 1, i, j, k and their negatives
Units ==
    {q \in {Quaternion(w, x, y, z) :
                w \in {Whole(-1), Zero, One}, x \in {Whole(-1), Zero, One},
                y \in {Whole(-1), Zero, One}, z \in {Whole(-1), Zero, One}} :
        Dot(q, q) = One}

Operands ==
    Units \cup {Q1234, Q5678, Quaternion(One, One, One, One),
                Quaternion(Zero, Zero, Zero, Zero)}

MultiplyCalls ==
    [op : {"multiply"}, a : WholeQuaternions \cup {Q1234, Q5678}, b : Operands]
RotateVectorCalls ==
    [op : {"rotate_vector"},
     self : {q \in WholeQuaternions : HasSqrt(Dot(q, q))},
     v : Components \X Components \X Components]
SlerpCalls ==
    [op : {"slerp"}, self : Units, other : Units,
     t : {Zero, [n |-> 1, d |-> 3], One}]

\* A call is made; output holds what it returned, once it has returned.
InitQuaternion ==
    /\ New
    /\ input \in MultiplyCalls \cup RotateVectorCalls \cup SlerpCalls
    /\ output = {}

MultiplyStep ==
    /\ output = {}
    /\ input.op = "multiply"
    /\ output' = {Multiply(input.a, input.b)}
    /\ UNCHANGED <<manager, input>>

RotateVectorStep ==
    /\ output = {}
    /\ input.op = "rotate_vector"
    /\ output' = {RotateVector(input.self, input.v)}
    /\ UNCHANGED <<manager, input>>

SlerpStep ==
    /\ output = {}
    /\ input.op = "slerp"
    /\ output' = {Slerp(input.self, input.other, input.t)}
    /\ UNCHANGED <<manager, input>>

NextQuaternion == MultiplyStep \/ RotateVectorStep \/ SlerpStep

SpecQuaternion == InitQuaternion /\ [][NextQuaternion]_vars

\* ------------------------------------------------------------------ system
Next ==
    \E t \in Threads :
        \/ SubmitTask(t)
        \/ ExecuteTask(t)
        \/ Sleep(t)
        \/ LockMetrics(t)
        \/ LockEmergence(t)
        \/ Apply(t)
        \/ ApplyPanics(t)
        \/ Complete(t)
        \/ GetTaskStatus(t)
        \/ GetMetrics(t)
        \/ ListTasks(t)

Spec == Init /\ [][Next]_vars

\* A thread inside execute_task keeps running: it is scheduled again, and the
\* mutexes it locks are std::sync::Mutex, which hand the lock to a waiting
\* thread once it is free.
ExecuteStep(t) ==
    \/ Sleep(t)
    \/ LockMetrics(t)
    \/ LockEmergence(t)
    \/ Apply(t)
    \/ ApplyPanics(t)
    \/ Complete(t)

FairSpec == Spec /\ \A t \in Threads : WF_vars(ExecuteStep(t))

\* ------------------------------------------------------------- properties
\* A thread between the write of InProgress (line 108) and the write of the
\* terminal status (line 116).
InExecution(t) == pc[t] # "idle"

\* The call that returned in this step.
Returned(op) == ret'.op = op

\* The step in which an execute_task on `id` marks it InProgress.
ExecutionBegins(id) ==
    \E t \in Threads : pc[t] = "idle" /\ pc'[t] = "sleep" /\ call'[t] = {id}

\* C1: a task's status never reverts: once terminal (Completed or Failed) it
\* never changes again, and an InProgress task never goes back to Pending,
\* whatever calls follow (execute_task on the same id again included).
StatusNeverReverts ==
    [][\A id \in DOMAIN tasks :
          /\ IsTerminal(tasks[id].status) =>
                tasks'[id].status = tasks[id].status
          /\ tasks[id].status = InProgress => tasks'[id].status # Pending]_vars

\* C2: executions are serialized: no two execute_task calls, on the same or
\* on different tasks, are both between marking InProgress and writing the
\* terminal status.
ExecutionsSerialized ==
    \A t, u \in Threads : InExecution(t) /\ InExecution(u) => t = u

\* C2 witness: one execution is under way in the engine while another
\* submitted task is still waiting to be executed.
ExecutionsSerializedWitness ==
    \E t \in Threads :
        /\ pc[t] = "apply"
        /\ \E id \in DOMAIN tasks : id \notin call[t] /\ tasks[id].status = Pending

\* No execution has begun without having finished.
NoExecutionInProgress ==
    /\ \A t \in Threads : ~InExecution(t)
    /\ \A id \in DOMAIN tasks : tasks[id].status # InProgress

DuplicateSubmitChangesNothing ==
    [][(Returned("submit_task") /\ ret'.arg.task_id \in DOMAIN tasks) =>
          /\ ret'.kind = "Err"
          /\ tasks' = tasks
          /\ metrics' = metrics]_vars

\* C4 witness: a duplicate submit was refused; the stored task has another
\* command than the refused one and has already been executed.
DuplicateSubmitWitness ==
    /\ ret.op = "submit_task"
    /\ ret.kind = "Err"
    /\ ret.message = "already exists"
    /\ tasks[ret.arg.task_id].command # ret.arg.task
    /\ tasks[ret.arg.task_id].status.tag = "Completed"

\* C5: execute_task and get_task_status on an id that is not in the task
\* table return an error and leave the table and the snapshot as they were.
UnknownIdChangesNothing ==
    [][((Returned("execute_task") \/ Returned("get_task_status"))
            /\ ret'.arg \notin DOMAIN tasks) =>
          /\ ret'.kind = "Err"
          /\ tasks' = tasks
          /\ metrics' = metrics]_vars

\* C5 witness: execute_task on an unknown id has failed on a table that
\* holds another task.
UnknownIdWitness ==
    /\ ret.op = "execute_task"
    /\ ret.kind = "Err"
    /\ ret.message = "not found"
    /\ ret.arg \notin DOMAIN tasks
    /\ DOMAIN tasks # {}

\* What a successful submit_task of `task` under `id` does to the table: one
\* more entry, Pending, every other entry as it was.
AddsPending(id, task) ==
    /\ DOMAIN tasks' = DOMAIN tasks \cup {id}
    /\ tasks'[id] = [command |-> task, status |-> Pending]
    /\ \A k \in DOMAIN tasks : tasks'[k] = tasks[k]

\* A Pending task stays Pending until an execute_task on it begins, and
\* get_task_status returns the stored status.
PendingUntilExecuted ==
    /\ \A id \in DOMAIN tasks :
          (tasks[id].status = Pending /\ ~ExecutionBegins(id)) =>
              tasks'[id].status = Pending
    /\ (Returned("get_task_status") /\ ret'.kind = "Ok") =>
          ret'.value = tasks[ret'.arg].status

\* C6 as stated: a submit_task whose id is not yet in the task table
\* succeeds, adds exactly one entry under the returned id with status
\* Pending, and the task stays Pending until an execute_task on it begins.
FreshSubmitSucceeds ==
    [][/\ (Returned("submit_task") /\ ret'.arg.task_id \notin DOMAIN tasks) =>
             /\ ret'.kind = "Ok"
             /\ ret'.value = ret'.arg.task_id
             /\ AddsPending(ret'.arg.task_id, ret'.arg.task)
       /\ PendingUntilExecuted]_vars

\* C6 amended: the same whenever the mutex of the task table is not
\* poisoned; when it is poisoned the call returns an error and adds nothing.
FreshSubmitSucceedsUnlessPoisoned ==
    [][/\ (Returned("submit_task") /\ ret'.arg.task_id \notin DOMAIN tasks) =>
             IF tasksPoisoned
             THEN ret'.kind = "Err" /\ tasks' = tasks
             ELSE /\ ret'.kind = "Ok"
                  /\ ret'.value = ret'.arg.task_id
                  /\ AddsPending(ret'.arg.task_id, ret'.arg.task)
       /\ PendingUntilExecuted]_vars

\* C6 witness: a submit without task_id has just added a second task, which
\* is Pending beside a task that was executed.
FreshSubmitWitness ==
    /\ ret.op = "submit_task"
    /\ ret.kind = "Ok"
    /\ ret.arg.task.task_id = {}
    /\ tasks[ret.value].status = Pending
    /\ \E id \in DOMAIN tasks : tasks[id].status.tag = "Completed"

\* C7: a Completed task keeps the snapshot of the moment it finished: no
\* step other than the start of an execute_task on that very task changes
\* its status, although the shared snapshot moves on.
CompletedKeepsItsSnapshot ==
    [][\A a \in DOMAIN tasks :
          (tasks[a].status.tag = "Completed" /\ ~ExecutionBegins(a)) =>
              tasks'[a].status = tasks[a].status]_vars

\* C7 witness: a task is Completed with a snapshot older than the shared
\* one, which a later execution of another task has replaced.
CompletedKeepsItsSnapshotWitness ==
    \E a, b \in DOMAIN tasks :
        /\ a # b
        /\ tasks[a].status.tag = "Completed"
        /\ tasks[a].status.metrics # metrics
        /\ tasks[b].status = Completed(metrics)

\* C8 as stated: all three locks are held from the marking of the task,
\* across the delay, until the terminal status has been written.
AllLocksHeldThroughout ==
    \A t \in Threads :
        InExecution(t) =>
            t \in tasksLock /\ t \in metricsLock /\ t \in emergenceLock

\* C8 amended: the locks are taken in the order task table, snapshot,
\* engine; the task table is held for the whole execution, the snapshot and
\* the engine only from after the delay until the engine application
\* returns, which is before the terminal status is written.
LockDiscipline ==
    \A t \in Threads :
        /\ InExecution(t) <=> t \in tasksLock
        /\ t \in metricsLock <=> pc[t] \in {"lock_emergence", "apply"}
        /\ t \in emergenceLock <=> pc[t] = "apply"

\* C8 witness: the engine application has returned and the snapshot is
\* replaced; the thread holds the task table alone and has yet to write the
\* terminal status.
LockDisciplineWitness ==
    \E t \in Threads :
        /\ pc[t] = "complete"
        /\ tasksLock = {t}
        /\ metricsLock = {}
        /\ emergenceLock = {}
        /\ metrics # BaselineMetrics
        /\ tasks[Arg(t)].status = InProgress

\* C9: execute_task holds the task table for its entire duration: while a
\* task is marked and its terminal status is not written, the executing
\* thread holds the lock, no step changes the table, no call that takes the
\* table returns, and no status returned to a caller is InProgress.
TableHeldExclusively ==
    [][/\ \A t \in Threads : InExecution(t) => tasksLock = {t}
       /\ (\E t \in Threads : InExecution(t) /\ pc'[t] # "idle") =>
             /\ tasks' = tasks
             /\ ret'.op \notin {"submit_task", "execute_task",
                                "get_task_status", "list_tasks"}
       /\ (Returned("get_task_status") /\ ret'.kind = "Ok") =>
             ret'.value # InProgress
       /\ (Returned("list_tasks") /\ ret'.kind = "Ok") =>
             \A entry \in ret'.value : entry[2] # InProgress]_vars

\* C9 witness: during the delay of an execution another caller's
\* get_metrics has returned; the calls on the task table have to wait.
TableHeldExclusivelyWitness ==
    \E t \in Threads :
        /\ pc[t] = "sleep"
        /\ tasks[Arg(t)].status = InProgress
        /\ ret.op = "get_metrics"

\* C10: an execute_task call that has marked its task InProgress leaves it
\* in a terminal state when the call ends; the task does not stay
\* InProgress after the call.
ExecutionEndsTerminal ==
    [][\A t \in Threads :
          (InExecution(t) /\ pc'[t] = "idle") =>
              IsTerminal(tasks'[Arg(t)].status)]_vars
\* -------------------------------------------------------- C11: get_metrics
\* C11 as stated: every get_metrics call returns a copy of the current shared
\* snapshot and never an error, whatever came before.
GetMetricsNeverFails ==
    [][Returned("get_metrics") => ret'.kind = "Ok" /\ ret'.value = metrics]_vars

\* C11, amended: get_metrics returns a copy of the current shared snapshot
\* unless the metrics mutex is poisoned; on a poisoned mutex it returns the
\* error "Failed to access metrics".
GetMetricsFailsOnlyWhenPoisoned ==
    [][Returned("get_metrics") =>
         IF metricsPoisoned
         THEN ret'.kind = "Err" /\ ret'.message = "Failed to access metrics"
         ELSE ret'.kind = "Ok" /\ ret'.value = metrics]_vars

\* get_metrics has returned an error after an execution panicked.
GetMetricsFailsWitness ==
    /\ ret.op = "get_metrics"
    /\ ret.kind = "Err"
    /\ metricsPoisoned

\* ------------------------------------------------------ C12: typed errors
\* The mutex a call locks first.
FirstLockPoisoned(op) ==
    IF op = "get_metrics" THEN metricsPoisoned ELSE tasksPoisoned

\* C12: a call that finds a lock poisoned returns Err(Error::TaskExecution):
\* each of the five operations called with its first mutex poisoned returns
\* an Err, execute_task returns an Err when the metrics or the emergence
\* mutex is poisoned at its lock, and a call unwinds with a panic only when
\* it acquired every lock it took unpoisoned.
PoisonedLockIsTypedError ==
    [][/\ ret'.op # "none" /\ pc' = pc /\ FirstLockPoisoned(ret'.op)
            => ret'.kind = "Err"
       /\ \A t \in Threads :
            /\ pc[t] = "lock_metrics" /\ pc'[t] # pc[t] /\ metricsPoisoned
                  => ret'.kind = "Err"
            /\ pc[t] = "lock_emergence" /\ pc'[t] # pc[t] /\ emergencePoisoned
                  => ret'.kind = "Err"
       /\ ret'.kind = "Panic" =>
            ~tasksPoisoned /\ ~metricsPoisoned /\ ~emergencePoisoned]_vars

\* execute_task has returned the error of a poisoned task table.
PoisonedLockWitness ==
    /\ ret.op = "execute_task"
    /\ ret.kind = "Err"
    /\ ret.message = "Failed to access task storage"
    /\ tasksPoisoned

\* ------------------------------------------------- C13: execution results
\* C13: an execute_task call that returns Ok reports success = true, error =
\* None and the task_id it was called with, and when it returns the task's
\* stored status is Completed with the metrics of the result.
ExecutionReportsSuccess ==
    ret.op = "execute_task" /\ ret.kind = "Ok" =>
        /\ ret.value.success
        /\ ret.value.error = {}
        /\ ret.value.task_id = ret.arg
        /\ ret.arg \in DOMAIN tasks
        /\ tasks[ret.arg].status = Completed(ret.value.metrics)

\* An execute_task call has returned a result with new metrics.
ExecutionReportsSuccessWitness ==
    /\ ret.op = "execute_task"
    /\ ret.kind = "Ok"
    /\ ret.value.metrics # BaselineMetrics

\* ------------------------------------------------------- C14: list_tasks
\* C14: a list_tasks call that returns a list returns exactly one (id,
\* status) pair for every id submit_task has returned so far and none for any
\* other id, each status being the one stored when the call returns; after
\* one submit and one execute on a fresh manager the list has exactly one
\* entry and that entry is Completed.
ListIsSnapshot ==
    [][Returned("list_tasks") /\ ret'.kind = "Ok" =>
         /\ {entry[1] : entry \in ret'.value} = submitted
         /\ \A id \in submitted :
               {entry \in ret'.value : entry[1] = id} = {<<id, tasks'[id].status>>}
         /\ (Cardinality(submitted) = 1 /\ applied = 1 /\ Executing = {}) =>
               /\ Cardinality(ret'.value) = 1
               /\ \A entry \in ret'.value : entry[2].tag = "Completed"]_vars

\* list_tasks has returned the one Completed entry of a manager that saw one
\* submit and one execute.
ListIsSnapshotWitness ==
    /\ ret.op = "list_tasks"
    /\ ret.kind = "Ok"
    /\ Cardinality(submitted) = 1
    /\ applied = 1
    /\ \E id \in submitted : ret.value = {<<id, Completed(metrics)>>}

\* ------------------------------------------------ C15: whole snapshots only
\* C15: the shared snapshot is replaced as a whole: it is always the baseline
\* snapshot or the complete snapshot one engine application produced, and so
\* is every value get_metrics returns, also while executions are running.
SnapshotReplacedAtomically ==
    /\ metrics \in {BaselineMetrics} \cup produced
    /\ ret.op = "get_metrics" /\ ret.kind = "Ok" =>
          ret.value \in {BaselineMetrics} \cup produced

\* get_metrics has returned the snapshot of the second engine application
\* while another execution is running.
SnapshotReplacedAtomicallyWitness ==
    /\ ret.op = "get_metrics"
    /\ ret.kind = "Ok"
    /\ ret.value \in produced
    /\ Cardinality(produced) > 1
    /\ ret.value.v_geometric # BaselineMetrics.v_geometric
    /\ ret.value.s_geometric # BaselineMetrics.s_geometric
    /\ Executing # {}

OneQuaternionRotation ==
    /\ Cardinality(submitted) = 1
    /\ applied = 1
    /\ lastDone # NoReturn
    /\ tasks[lastDone.task_id].command.geometric_operator
          = "QuaternionRotation"

QuaternionRotationIncreasesV ==
    (OneQuaternionRotation /\ ret.op = "get_metrics" /\ ret.kind = "Ok") =>
        /\ ret.value.v_geometric > BaselineMetrics.v_geometric
        /\ ret.value.s_geometric >= BaselineMetrics.s_geometric
        /\ ret.value.q_oscillator >= BaselineMetrics.q_oscillator

\* get_metrics has returned after the one QuaternionRotation execution.
QuaternionRotationWitness ==
    /\ OneQuaternionRotation
    /\ ret.op = "get_metrics"
    /\ ret.kind = "Ok"
    /\ tasks[lastDone.task_id].status = Completed(ret.value)

\* ---------------------------------------- C18..C20: operator normalization
\* The label, in lower case, contains the keyword.
Has(keyword) == Contains(ToLowercase(input), keyword)

HasZitter ==
    \/ Has(<<"z", "i", "t", "t", "e", "r">>)
    \/ Has(<<"o", "s", "c", "i", "l", "l", "a", "t", "i", "o", "n">>)
HasDerivation ==
    \/ Has(<<"s", "t", "a", "b", "i", "l", "i", "z", "e">>)
    \/ Has(<<"d", "e", "r", "i", "v", "a", "t", "i", "o", "n">>)
HasSemantic ==
    \/ Has(<<"s", "e", "m", "a", "n", "t", "i", "c">>)
    \/ Has(<<"a", "n", "c", "h", "o", "r">>)
HasCoherence ==
    \/ Has(<<"c", "o", "h", "e", "r", "e", "n", "c", "e">>)
    \/ Has(<<"o", "p", "t", "i", "m", "i", "z", "e">>)
    \/ Has(<<"q", "u", "a", "t", "e", "r", "n", "i", "o", "n">>)

\* The label is the name up to letter case and surrounding white space.
IsNameUpToCase(label, name) ==
    \E before \in 0..Len(label) :
        /\ before + Len(name) <= Len(label)
        /\ \A i \in 1..before : label[i] \in WhiteSpace
        /\ \A i \in 1..Len(name) :
              ToLowercaseChar(label[before + i]) = ToLowercaseChar(name[i])
        /\ \A i \in (before + Len(name) + 1)..Len(label) :
              label[i] \in WhiteSpace

\* C18: the normalization is total: for every label it returns one of the
\* four enum names, and it returns QuaternionRotation when the label contains
\* no keyword and is no enum name.
NormalizationIsTotal ==
    output # NoOutput =>
        /\ output \in GeometricOperator
        /\ (/\ ~(HasZitter \/ HasDerivation \/ HasSemantic \/ HasCoherence)
            /\ \A operator \in GeometricOperator :
                  ~IsNameUpToCase(input, Spelling(operator)))
              => output = "QuaternionRotation"

\* A label of unrelated text has been normalized to the default.
NormalizationIsTotalWitness ==
    /\ output = "QuaternionRotation"
    /\ ~(HasZitter \/ HasDerivation \/ HasSemantic \/ HasCoherence)
    /\ \E i \in DOMAIN input : input[i] \notin WhiteSpace

\* C19: a label that is one of the four enum names up to letter case and
\* surrounding white space is normalized to that enum name.
EnumNamesMapToThemselves ==
    output # NoOutput =>
        \A operator \in GeometricOperator :
            IsNameUpToCase(input, Spelling(operator)) => output = operator

\* "ZitterBewegung" between white space has been normalized to Zitterbewegung.
EnumNamesWitness ==
    /\ output = "Zitterbewegung"
    /\ IsNameUpToCase(input, Spelling("Zitterbewegung"))
    /\ Len(input) > Len(Spelling("Zitterbewegung")) + 1
    /\ Head(input) \in WhiteSpace
    /\ \E i \in DOMAIN input : input[i] = "B"

\* C20: the keywords are looked for in the label in lower case, in the order
\* of the table, and the first row that matches decides.
KeywordsInOrder ==
    output # NoOutput =>
        output = IF HasZitter THEN "Zitterbewegung"
                 ELSE IF HasDerivation THEN "GeometricDerivation"
                 ELSE IF HasSemantic THEN "SemanticSynthesis"
                 ELSE IF HasCoherence THEN "QuaternionRotation"
                 ELSE output

\* A label with "optimize" before "zitter" has been normalized to
\* Zitterbewegung.
KeywordsInOrderWitness ==
    /\ output = "Zitterbewegung"
    /\ Contains(input, <<"o", "p", "t", "i", "m", "i", "z", "e">>)
    /\ Contains(input, <<"z", "i", "t">>)
    /\ Has(<<"z", "i", "t", "t", "e", "r">>)

\* -------------------------------------------- C21..C25: quaternion algebra
\* The Hamilton product of whole quaternions, in whole numbers.
Hamilton(a, b) ==
    LET aw == a.w.n  ax == a.x.n  ay == a.y.n  az == a.z.n
        bw == b.w.n  bx == b.x.n  by == b.y.n  bz == b.z.n
    IN  Quaternion(Whole(aw * bw - ax * bx - ay * by - az * bz),
                   Whole(aw * bx + ax * bw + ay * bz - az * by),
                   Whole(aw * by - ax * bz + ay * bw + az * bx),
                   Whole(aw * bz + ax * by - ay * bx + az * bw))

\* C21: multiply returns the Hamilton product of its operands and modifies
\* neither of them; the product of (1,2,3,4) and (5,6,7,8) is
\* (-60, 12, 30, 24).
MultiplyIsHamiltonProduct ==
    [][(input.op = "multiply" /\ output' # output) =>
          /\ input' = input
          /\ output' = {Hamilton(input.a, input.b)}
          /\ (input.a = Q1234 /\ input.b = Q5678) =>
                output' = {Quaternion(Whole(-60), Whole(12),
                                      Whole(30), Whole(24))}]_vars

\* multiply has returned the product of (1,2,3,4) and (5,6,7,8).
MultiplyWitness ==
    /\ input.op = "multiply"
    /\ input.a = Q1234
    /\ input.b = Q5678
    /\ output = {Quaternion(Whole(-60), Whole(12), Whole(30), Whole(24))}

\* C22: the product of the identity and q, in either order, is q, for unit
\* and other q.
IdentityIsNeutral ==
    (input.op = "multiply" /\ output # {}) =>
        /\ input.a = Identity => output = {input.b}
        /\ input.b = Identity => output = {input.a}

\* multiply has returned (1,2,3,4), which is no unit, for (1,2,3,4) and the
\* identity.
IdentityIsNeutralWitness ==
    /\ input.op = "multiply"
    /\ input.a = Q1234
    /\ input.b = Identity
    /\ output = {Q1234}

\* C23: multiply is associative on whole quaternions: the product a b that
\* it returned, multiplied by c, is a multiplied by the product b c.
MultiplyIsAssociative ==
    (input.op = "multiply" /\ output # {}) =>
        \A product \in output, c \in Operands :
            Multiply(product, c) = Multiply(input.a, Multiply(input.b, c))

\* multiply is not commutative: it has returned a product a b that differs
\* from b a.
MultiplyIsNotCommutative ==
    /\ input.op = "multiply"
    /\ output # {}
    /\ output # {Multiply(input.b, input.a)}

\* C24: the quaternion rotate_vector computes has scalar part zero, the
\* vector returned is its vector part, and the conjugate of a quaternion
\* keeps w and negates x, y and z.
RotationIsPureVector ==
    (input.op = "rotate_vector" /\ output # {}) =>
        /\ \A r \in output :
              /\ r.p_rotated.w = Zero
              /\ r.value = <<r.p_rotated.x, r.p_rotated.y, r.p_rotated.z>>
        /\ Conjugate(input.self).w = input.self.w
        /\ Conjugate(input.self).x = Neg(input.self.x)
        /\ Conjugate(input.self).y = Neg(input.self.y)
        /\ Conjugate(input.self).z = Neg(input.self.z)

\* rotate_vector has turned a vector with a quaternion that is no unit and
\* has a scalar part.
RotationWitness ==
    /\ input.op = "rotate_vector"
    /\ input.self.w # Zero
    /\ Dot(input.self, input.self) # One
    /\ \E r \in output : r.value # input.v /\ r.p_rotated.w = Zero

\* C25: slerp returns its first argument for t = 0 and, for t = 1, its
\* second argument, negated when the dot product of the two is negative.
SlerpReproducesEndpoints ==
    (input.op = "slerp" /\ output # {}) =>
        /\ input.t = Zero => output = {input.self}
        /\ input.t = One =>
              output = {IF Less(Dot(input.self, input.other), Zero)
                        THEN Quaternion(Neg(input.other.w), Neg(input.other.x),
                                        Neg(input.other.y), Neg(input.other.z))
                        ELSE input.other}

\* ------------------------------------------------------ C26: no deadlock
\* C26: callers never wait on each other's locks forever: a lock is only
\* ever held by a caller that is inside a call, an execution never finds the
\* snapshot or the engine locked by another caller when it comes to lock
\* them, and under fair scheduling every execute_task call returns, which
\* releases the locks the other calls wait for.
DeadlockFree ==
    /\ [](/\ tasksLock \cup metricsLock \cup emergenceLock \subseteq Executing
          /\ \A t \in Threads :
                /\ pc[t] = "lock_metrics" => metricsLock = {}
                /\ pc[t] = "lock_emergence" => emergenceLock = {})
    /\ \A t \in Threads : (pc[t] # "idle") ~> (pc[t] = "idle")

\* An execution holds the three locks, none of them poisoned: every other
\* call has to wait for it.
DeadlockFreeWitness ==
    /\ \E t \in Threads :
          tasksLock = {t} /\ metricsLock = {t} /\ emergenceLock = {t}
    /\ ~tasksPoisoned /\ ~metricsPoisoned /\ ~emergencePoisoned
    /\ applied > 0

\* ------------------------------------------------- C27: tasks are kept
\* C27: a stored task is never removed and its command never changes: a
\* successful submit_task stores the command it was given, and every step
\* keeps every id of the table with the command it has; only the status
\* changes.
TasksAreImmutable ==
    [][/\ \A id \in DOMAIN tasks :
            /\ id \in DOMAIN tasks'
            /\ tasks'[id].command = tasks[id].command
       /\ (Returned("submit_task") /\ ret'.kind = "Ok") =>
            tasks'[ret'.value].command = ret'.arg.task]_vars

\* A task that was executed twice, and that a second submit under its id
\* tried to replace, still has its command.
TasksAreImmutableWitness ==
    /\ applied = 2
    /\ ret.op = "submit_task"
    /\ ret.kind = "Err"
    /\ \E id \in DOMAIN tasks :
          /\ ret.arg.task_id = id
          /\ tasks[id].command # ret.arg.task
          /\ tasks[id].status.tag = "Completed"
          /\ \A other \in DOMAIN tasks \ {id} : tasks[other].status = Pending

\* ------------------------------------------- C28: who changes the snapshot
\* C28: the shared snapshot changes only in the step of an execute_task that
\* stores the engine's result: submit_task, get_task_status, get_metrics,
\* list_tasks and an execute_task that returns an error leave it as it
\* was, and get_task_status, get_metrics and list_tasks leave the task
\* table as it was too.
OnlyExecutionChangesSnapshot ==
    [][/\ metrics' # metrics =>
            \E t \in Threads : pc[t] = "apply" /\ pc'[t] = "complete"
       /\ ret'.op \in {"submit_task", "get_task_status", "get_metrics",
                       "list_tasks"} => metrics' = metrics
       /\ (Returned("execute_task") /\ ret'.kind = "Err") => metrics' = metrics
       /\ ret'.op \in {"get_task_status", "get_metrics", "list_tasks"} =>
            tasks' = tasks]_vars

\* get_metrics has returned a snapshot that an execution stored, and the
\* snapshot is still the one it returned.
OnlyExecutionChangesSnapshotWitness ==
    /\ ret.op = "get_metrics"
    /\ ret.kind = "Ok"
    /\ ret.value = metrics
    /\ metrics # BaselineMetrics
    /\ Executing = {}

\* ------------------------------------------------ C29: Failed is not used
\* C29: no task ever has the status Failed: every task is Pending,
\* InProgress or Completed, also after lock failures.
FailedIsUnreachable ==
    \A id \in DOMAIN tasks :
        /\ tasks[id].status.tag # "Failed"
        /\ tasks[id].status.tag \in {"Pending", "InProgress", "Completed"}

\* After an execution that completed and one that panicked, with the locks
\* poisoned and a call turned away, one task is Completed and one InProgress.
FailedIsUnreachableWitness ==
    /\ tasksPoisoned
    /\ ret.kind = "Err"
    /\ \E a, b \in DOMAIN tasks :
          /\ tasks[a].status.tag = "Completed"
          /\ tasks[b].status = InProgress
====
